---- MODULE Spec2Model ----
(***************************************************************************)
(* HTTPS Everywhere rewrite engine (getlantern/httpseverywhere).           *)
(*                                                                         *)
(* The model covers the deserializer that builds the two indexes           *)
(* (deserializer.go), the rewrite engine with its three lookup steps and   *)
(* the rule-set evaluation (httpse.rewrite, httpse.rewriteWithRuleset),    *)
(* the asynchronous index build (httpse.init) and the stats consumer       *)
(* (httpse.readTimings, httpseStats.addTiming).                            *)
(*                                                                         *)
(* Strings are sequences of one-character strings, so that prefixes,       *)
(* suffixes, reversal and replacement are computed as the code computes    *)
(* them.                                                                   *)
(***************************************************************************)
EXTENDS Integers, Sequences, FiniteSets, TLC

VARIABLES
  bundle,           \* the embedded asset: the sequence of Ruleset records
  decodeOk,         \* whether gob decoding of the asset succeeds
  plainTargets,     \* atomic.Value holding map[string]*ruleset
  wildcardTargets,  \* atomic.Value holding the radix tree
  buildPc,          \* position of the goroutine running httpse.init
  buildLocal,       \* (plain, wildcard) returned by newRulesets, held by init
  pc,               \* position of each caller inside httpse.rewrite
  url,              \* the *url.URL argument of each caller
  res,              \* the (string, bool) a caller's rewrite returns
  seen,             \* per caller and lookup step: what the step loaded and found
  statsCh,          \* the timing handed over on the unbuffered channel
  statsPc,          \* position of the goroutine running httpse.readTimings
  stats,            \* httpseStats: runs, totalTime, max, maxHost
  returned,         \* rewrite calls past the scheme guard that have returned
  laterDefaults,    \* the httpse of each later call of Default(): its initOnce and init goroutine
  deserializations  \* number of runs of deserializer.newRulesets in the process

vars == <<bundle, decodeOk, plainTargets, wildcardTargets, buildPc, buildLocal,
          pc, url, res, seen, statsCh, statsPc, stats, returned,
          laterDefaults, deserializations>>

-----------------------------------------------------------------------------
(* Bounds *)

NCallers == 2
MaxRuns == 2
MaxDur == 2

-----------------------------------------------------------------------------
(* Strings *)

HasPrefix(s, p) ==
  /\ Len(p) <= Len(s)
  /\ SubSeq(s, 1, Len(p)) = p

HasSuffix(s, p) ==
  /\ Len(p) <= Len(s)
  /\ SubSeq(s, Len(s) - Len(p) + 1, Len(s)) = p

TrimPrefix(s, p) == IF HasPrefix(s, p) THEN SubSeq(s, Len(p) + 1, Len(s)) ELSE s

TrimSuffix(s, p) == IF HasSuffix(s, p) THEN SubSeq(s, 1, Len(s) - Len(p)) ELSE s

occursAt(lit, s, i) ==
  /\ i + Len(lit) - 1 <= Len(s)
  /\ SubSeq(s, i, i + Len(lit) - 1) = lit

Contains(s, lit) == \E i \in 1..(Len(s) + 1) : occursAt(lit, s, i)

\* strings.Replace(s, old, new, -1) for a non-empty old: every
\* non-overlapping occurrence, scanning from the left.
RECURSIVE replaceFrom(_, _, _, _)
replaceFrom(s, old, new, i) ==
  IF i > Len(s) THEN <<>>
  ELSE IF occursAt(old, s, i) THEN new \o replaceFrom(s, old, new, i + Len(old))
  ELSE <<s[i]>> \o replaceFrom(s, old, new, i + 1)

Replace(s, old, new) == replaceFrom(s, old, new, 1)

Itoa(i) == <<"0", "1", "2", "3", "4", "5", "6", "7", "8", "9">>[i + 1]

-----------------------------------------------------------------------------
(* Regular expressions.  The patterns of the model are the subset           *)
(* ['^'] literal: an optional anchor followed by literal characters.  A     *)
(* pattern with an unclosed "(" does not compile.                           *)

CompileError(p) == \E i \in 1..Len(p) : p[i] = "("

Compile(p) ==
  IF Len(p) > 0 /\ p[1] = "^"
  THEN [anchored |-> TRUE, lit |-> Tail(p)]
  ELSE [anchored |-> FALSE, lit |-> p]

MatchString(re, s) ==
  IF re.anchored THEN HasPrefix(s, re.lit) ELSE Contains(s, re.lit)

Punct == {"$", "{", "}", ":", "/", ".", "*", "^", "("}

NameChar(c) == c \notin Punct

RECURSIVE nameLen(_, _)
nameLen(t, i) ==
  IF i <= Len(t) /\ NameChar(t[i]) THEN 1 + nameLen(t, i + 1) ELSE 0

\* Regexp.Expand of a template against a match of a pattern that has no
\* capture group: "$$" gives "$", every well-formed reference ($name or
\* ${name}, name a run of letters, digits and "_") gives the empty string,
\* and a malformed reference leaves its "$" as raw text.
RECURSIVE Expand(_)
Expand(t) ==
  IF t = <<>> THEN <<>>
  ELSE IF Head(t) # "$" THEN <<Head(t)>> \o Expand(Tail(t))
  ELSE IF Len(t) >= 2 /\ t[2] = "$" THEN <<"$">> \o Expand(SubSeq(t, 3, Len(t)))
  ELSE IF Len(t) >= 2 /\ t[2] = "{"
    THEN LET n == nameLen(t, 3) IN
         IF n > 0 /\ 3 + n <= Len(t) /\ t[3 + n] = "}"
         THEN Expand(SubSeq(t, 4 + n, Len(t)))
         ELSE <<"$">> \o Expand(Tail(t))
  ELSE LET n == nameLen(t, 2) IN
       IF n > 0
       THEN Expand(SubSeq(t, 2 + n, Len(t)))
       ELSE <<"$">> \o Expand(Tail(t))

ReplaceAllString(re, s, to) ==
  IF re.anchored
  THEN IF HasPrefix(s, re.lit)
       THEN Expand(to) \o SubSeq(s, Len(re.lit) + 1, Len(s))
       ELSE s
  ELSE Replace(s, re.lit, Expand(to))

-----------------------------------------------------------------------------
(* Replacement templates *)

\* A variant that braces "$1" only.
normalizeTo_OnlyGroup1(to) == Replace(to, <<"$", "1">>, <<"$", "{", "1", "}">>)

\* A variant that braces the digit 1 wherever it stands, braced or not.
normalizeTo_Rebrace(to) == Replace(to, <<"1">>, <<"{", "1", "}">>)

RECURSIVE normalizeLoop(_, _)
normalizeLoop(normalizedTo, i) ==
  IF i >= 10 THEN normalizedTo
  ELSE normalizeLoop(Replace(normalizedTo,
                             <<"$", Itoa(i)>>,
                             <<"$", "{", Itoa(i), "}">>),
                     i + 1)

normalizeTo(to) ==
  normalizeLoop(Replace(to, <<"$", "1">>, <<"$", "{", "1", "}">>), 1)

-----------------------------------------------------------------------------
(* Host reversal *)

RECURSIVE swapLoop(_, _, _)
swapLoop(runes, i, n) ==
  IF i >= n \div 2 THEN runes
  ELSE swapLoop([runes EXCEPT ![i + 1] = runes[n - i], ![n - i] = runes[i + 1]],
                i + 1, n)

\* A variant that keeps the "." in front of the reversed host.
reverse_KeepDot(input) == <<".">> \o swapLoop(input, 0, Len(input))

\* runes[0] = '.' is written into the first cell and the slice is then
\* re-based past that cell, so the returned string is the reversed input.
reverse(input) ==
  LET alloc == [i \in 1..(Len(input) + 1) |-> IF i = 1 THEN "." ELSE ""]
      rebased == Tail(alloc)
      filled == [i \in 1..Len(rebased) |-> input[i]]
      n == Len(input)
  IN swapLoop(SubSeq(filled, 1, n), 0, n)

-----------------------------------------------------------------------------
(* Indexes: the plain map and the radix tree are finite maps from strings.  *)

EmptyMap == << >>

\* A variant that keeps the entry already stored under the key.
Insert_KeepFirst(t, k, v) ==
  [x \in (DOMAIN t) \cup {k} |-> IF x \in DOMAIN t THEN t[x] ELSE v]

Insert(t, k, v) == [x \in (DOMAIN t) \cup {k} |-> IF x = k THEN v ELSE t[x]]

\* A variant that returns the shortest stored key that is a prefix of s.
LongestPrefix_Shortest(t, s) ==
  LET ks == {k \in DOMAIN t : HasPrefix(s, k)} IN
  IF ks = {} THEN [match |-> FALSE, key |-> <<>>, val |-> [id |-> 0]]
  ELSE LET k == CHOOSE x \in ks : \A y \in ks : Len(x) <= Len(y)
       IN [match |-> TRUE, key |-> k, val |-> t[k]]

LongestPrefix(t, s) ==
  LET ks == {k \in DOMAIN t : HasPrefix(s, k)} IN
  IF ks = {} THEN [match |-> FALSE, key |-> <<>>, val |-> [id |-> 0]]
  ELSE LET k == CHOOSE x \in ks : \A y \in ks : Len(y) <= Len(x)
       IN [match |-> TRUE, key |-> k, val |-> t[k]]

-----------------------------------------------------------------------------
(* Deserializer *)

isPrefixTarget(host) == HasPrefix(host, <<"*">>)

isSuffixTarget(host) == HasSuffix(host, <<"*">>)

\* The target loop of addRuleset, from target i on.
RECURSIVE addTargets(_, _, _, _, _)
addTargets(targets, i, rsCopy, plains, wildcards) ==
  IF i > Len(targets) THEN [plains |-> plains, wildcards |-> wildcards]
  ELSE LET host == targets[i] IN
       IF isSuffixTarget(host)
       THEN addTargets(targets, i + 1, rsCopy, plains,
                       Insert(wildcards, TrimSuffix(host, <<"*">>), rsCopy))
       ELSE IF isPrefixTarget(host)
       THEN addTargets(targets, i + 1, rsCopy, plains,
                       Insert(wildcards, reverse(TrimPrefix(host, <<"*">>)), rsCopy))
       ELSE addTargets(targets, i + 1, rsCopy,
                       Insert(plains, host, rsCopy), wildcards)

\* The in-memory rule set built from a record; id stands for the pointer
\* rsCopy, one per record of the bundle.
compileRuleset(rs, id) ==
  [id |-> id,
   exclusion |-> [i \in 1..Len(rs.Exclusion) |->
                    [pattern |-> Compile(rs.Exclusion[i])]],
   rule |-> [i \in 1..Len(rs.Rule) |->
               [from |-> Compile(rs.Rule[i].From),
                to |-> normalizeTo(rs.Rule[i].To)]]]

\* A variant that also indexes rule sets that are switched off.
addRuleset_KeepDisabled(rs, id, plains, wildcards) ==
  IF \E i \in 1..Len(rs.Exclusion) : CompileError(rs.Exclusion[i])
  THEN [plains |-> plains, wildcards |-> wildcards]
  ELSE IF \E i \in 1..Len(rs.Rule) : CompileError(rs.Rule[i].From)
  THEN [plains |-> plains, wildcards |-> wildcards]
  ELSE addTargets(rs.Target, 1, compileRuleset(rs, id), plains, wildcards)

\* A variant that indexes a rule set even when one of its patterns does not
\* compile.
addRuleset_KeepUncompiled(rs, id, plains, wildcards) ==
  IF rs.Off # ""
  THEN [plains |-> plains, wildcards |-> wildcards]
  ELSE IF rs.Platform = "mixedcontent"
  THEN [plains |-> plains, wildcards |-> wildcards]
  ELSE addTargets(rs.Target, 1, compileRuleset(rs, id), plains, wildcards)

addRuleset(rs, id, plains, wildcards) ==
  IF rs.Off # ""
  THEN [plains |-> plains, wildcards |-> wildcards]
  ELSE IF rs.Platform = "mixedcontent"
  THEN [plains |-> plains, wildcards |-> wildcards]
  ELSE IF \E i \in 1..Len(rs.Exclusion) : CompileError(rs.Exclusion[i])
  THEN [plains |-> plains, wildcards |-> wildcards]
  ELSE IF \E i \in 1..Len(rs.Rule) : CompileError(rs.Rule[i].From)
  THEN [plains |-> plains, wildcards |-> wildcards]
  ELSE addTargets(rs.Target, 1, compileRuleset(rs, id), plains, wildcards)

RECURSIVE addAll(_, _, _, _)
addAll(rulesets, i, plains, wildcards) ==
  IF i > Len(rulesets) THEN [plains |-> plains, wildcards |-> wildcards]
  ELSE LET r == addRuleset(rulesets[i], i, plains, wildcards)
       IN addAll(rulesets, i + 1, r.plains, r.wildcards)

\* A variant that goes on to build the indexes after a decode error.
newRulesets_IgnoreError(data, ok) ==
  LET r == addAll(data, 1, EmptyMap, EmptyMap)
  IN [err |-> FALSE, plains |-> r.plains, wildcards |-> r.wildcards]

newRulesets(data, ok) ==
  IF ~ok
  THEN [err |-> TRUE, plains |-> EmptyMap, wildcards |-> EmptyMap]
  ELSE LET r == addAll(data, 1, EmptyMap, EmptyMap)
       IN [err |-> FALSE, plains |-> r.plains, wildcards |-> r.wildcards]

-----------------------------------------------------------------------------
(* URLs *)

str_http == <<"h", "t", "t", "p">>
str_https == <<"h", "t", "t", "p", "s">>
str_HTTP == <<"H", "T", "T", "P">>

\* url.URL.String() for a URL made of scheme, host and path.
String(u) ==
  u.Scheme \o <<":">>
    \o (IF u.Host # <<>> \/ u.Path # <<>> THEN <<"/", "/">> ELSE <<>>)
    \o u.Host \o u.Path

-----------------------------------------------------------------------------
(* Rule-set evaluation *)

Miss == [str |-> <<>>, hit |-> FALSE]

RECURSIVE ruleLoop(_, _, _)
ruleLoop(u, rules, i) ==
  IF i > Len(rules) THEN Miss
  ELSE IF MatchString(rules[i].from, u)
  THEN [str |-> ReplaceAllString(rules[i].from, u, rules[i].to), hit |-> TRUE]
  ELSE ruleLoop(u, rules, i + 1)

\* A variant that consults the rules before the exclusions.
rewriteWithRuleset_RulesFirst(fullURL, r) ==
  LET u == String(fullURL)
      byRule == ruleLoop(u, r.rule, 1)
  IN IF byRule.hit THEN byRule
     ELSE Miss

\* A variant in which the last matching rule wins.
rewriteWithRuleset_LastRule(fullURL, r) ==
  LET u == String(fullURL)
      ms == {i \in 1..Len(r.rule) : MatchString(r.rule[i].from, u)}
  IN IF \E i \in 1..Len(r.exclusion) : MatchString(r.exclusion[i].pattern, u)
     THEN Miss
     ELSE IF ms = {} THEN Miss
     ELSE LET k == CHOOSE x \in ms : \A y \in ms : y <= x
          IN [str |-> ReplaceAllString(r.rule[k].from, u, r.rule[k].to),
              hit |-> TRUE]

\* A variant that hands back the unchanged URL when nothing applies.
rewriteWithRuleset_EchoOnMiss(fullURL, r) ==
  LET u == String(fullURL) IN
  IF \E i \in 1..Len(r.exclusion) : MatchString(r.exclusion[i].pattern, u)
  THEN [str |-> u, hit |-> FALSE]
  ELSE LET byRule == ruleLoop(u, r.rule, 1)
       IN IF byRule.hit THEN byRule ELSE [str |-> u, hit |-> FALSE]

rewriteWithRuleset(fullURL, r) ==
  LET u == String(fullURL) IN
  IF \E i \in 1..Len(r.exclusion) : MatchString(r.exclusion[i].pattern, u)
  THEN Miss
  ELSE ruleLoop(u, r.rule, 1)

-----------------------------------------------------------------------------
(* Stats *)

Millisecond == 1000000

\* A variant that also moves max and maxHost on a tie.
addTiming_OnTie(s, t) ==
  LET ms == t.dur \div Millisecond IN
  [runs |-> s.runs + 1,
   totalTime |-> s.totalTime + ms,
   max |-> IF ms >= s.max THEN ms ELSE s.max,
   maxHost |-> IF ms >= s.max THEN t.host ELSE s.maxHost]

addTiming(s, t) ==
  LET ms == t.dur \div Millisecond IN
  [runs |-> s.runs + 1,
   totalTime |-> s.totalTime + ms,
   max |-> IF ms > s.max THEN ms ELSE s.max,
   maxHost |-> IF ms > s.max THEN t.host ELSE s.maxHost]

-----------------------------------------------------------------------------
(* Inputs: hosts, URLs, patterns, records and bundles *)

h_ab == <<"a", ".", "b">>
h_cab == <<"c", ".", "a", ".", "b">>
h_dcab == <<"d", ".", "c", ".", "a", ".", "b">>
h_evil == <<"c", "a", ".", "b">>
h_ac == <<"a", ".", "c">>
h_bac == <<"b", ".", "a", ".", "c">>

t_pre_ab == <<"*">> \o <<".">> \o h_ab
t_pre_cab == <<"*">> \o <<".">> \o h_cab
t_suf_a == <<"a", ".", "*">>
t_suf_b == <<"b", ".", "*">>
t_suf_ba == <<"b", ".", "a", ".", "*">>
t_both == <<"*", ".", "a", ".", "b", ".", "*">>

path_x == <<"/", "x">>

Hosts == {h_ab, h_cab, h_dcab, h_evil, h_ac, h_bac, <<>>}

HttpURLs ==
  {[Scheme |-> str_http, Host |-> h, Path |-> <<>>] : h \in Hosts}
    \cup {[Scheme |-> str_http, Host |-> h, Path |-> path_x] : h \in {h_ab, h_cab}}

OtherURLs == {[Scheme |-> s, Host |-> h_ab, Path |-> <<>>] : s \in {str_https, str_HTTP}}

URLs == HttpURLs \cup OtherURLs

p_http == <<"^">> \o str_http \o <<":">>
p_httpSl == p_http \o <<"/", "/">>
p_https == <<"^">> \o str_https \o <<":">>
p_bad == <<"(">>

to_https == str_https \o <<":">>
to_httpsW == to_https \o <<"/", "/", "w", ".">>
to_http == str_http \o <<":">>
to_y == <<"/", "y">>

r_up == [From |-> p_http, To |-> to_https]
r_www == [From |-> p_httpSl, To |-> to_httpsW]
r_path == [From |-> path_x, To |-> to_y]
r_down == [From |-> p_https, To |-> to_http]
r_same == [From |-> p_http, To |-> to_http]
r_bad == [From |-> p_bad, To |-> to_https]

Rec(off, plat, tg, ex, ru) ==
  [Off |-> off, Platform |-> plat, Target |-> tg, Exclusion |-> ex, Rule |-> ru]

TargetLists ==
  {<<h_ab>>, <<h_ab, h_cab>>, <<t_pre_ab>>, <<t_pre_cab>>, <<t_suf_a>>,
   <<t_suf_b>>, <<t_suf_ba>>, <<h_ab, t_pre_ab, t_suf_a>>}

RuleLists ==
  {<<r_up>>, <<r_path, r_up>>, <<r_up, r_www>>, <<r_www, r_up>>,
   <<r_same, r_up>>, <<r_down>>, <<r_same>>, <<r_bad, r_up>>}

\* Records that differ in their targets.
RecordsT ==
  {Rec("", "", tg, <<>>, ru) : tg \in TargetLists, ru \in {<<r_up>>, <<r_www>>}}

\* Records that differ in their exclusions and rules.
RecordsE ==
  {Rec("", "", <<h_ab, t_pre_ab>>, ex, ru) : ex \in {<<>>, <<path_x>>}, ru \in RuleLists}
    \cup {Rec("", "", <<h_ab, t_pre_ab>>, <<p_bad>>, <<r_up>>)}

\* Records that are switched off or restricted to mixed content.
RecordsF ==
  {Rec(f[1], f[2], tg, <<>>, <<r_up>>) :
     f \in {<<"just cuz", "">>, <<"", "mixedcontent">>},
     tg \in {<<h_ab>>, <<t_pre_ab, t_suf_a>>}}

\* Records with a wildcard target under a longer key whose only rule matches
\* no http URL.
RecordsD == {Rec("", "", tg, <<>>, <<r_down>>) : tg \in {<<t_pre_cab>>, <<t_suf_ba>>}}

\* A record whose target both starts and ends with "*".
RecordsW == {Rec("", "", <<t_both>>, <<>>, <<r_up>>)}

Records == RecordsT \cup RecordsE \cup RecordsF \cup RecordsD \cup RecordsW

\* Records that come second in a bundle of two.
RecordsBad == {r \in RecordsE : r.Exclusion = <<p_bad>> \/ r.Rule = <<r_bad, r_up>>}

Records2 == RecordsT \cup RecordsF \cup RecordsBad

Bundles == {<<>>} \cup {<<r>> : r \in Records}
             \cup {<<r1, r2>> : r1 \in Records, r2 \in Records2}

-----------------------------------------------------------------------------
(* State machine *)

Callers == 1..NCallers

HalfMs == 500000

Durations == {k * HalfMs : k \in 0..MaxDur}

NoURL == [Scheme |-> <<>>, Host |-> <<>>, Path |-> <<>>]

NoRuleset == [id |-> 0]

\* What one lookup step of a call did: whether it ran, which Store it read
\* (gen 0 is the one of newEmpty), whether the index had an entry, under
\* which key, the rule set it got and what evaluating it returned.
NoStep ==
  [run |-> FALSE, gen |-> 0, match |-> FALSE, key |-> <<>>, val |-> NoRuleset,
   hit |-> FALSE, str |-> <<>>]

NoSteps == [plain |-> NoStep, prefix |-> NoStep, suffix |-> NoStep]

NoTiming == [host |-> <<>>, dur |-> 0]

\* Calls that have taken their start time and not yet had their sample
\* added to the counters.
InFlight ==
  Cardinality({c \in Callers : pc[c] \in {"plain", "prefix", "suffix", "send"}})
    + (IF statsPc = "add" THEN 1 ELSE 0)

\* The bundles and URLs of the concurrent specification.
AsyncBundles ==
  {<<>>,
   <<Rec("", "", <<h_ab, t_pre_ab, t_suf_a>>, <<path_x>>, <<r_up>>)>>,
   <<Rec("", "", <<h_ab>>, <<>>, <<r_down>>), Rec("", "", <<t_pre_ab>>, <<>>, <<r_www>>)>>,
   <<Rec("just cuz", "", <<h_ab>>, <<>>, <<r_up>>), Rec("", "", <<t_suf_a>>, <<>>, <<r_up>>)>>,
   <<Rec("", "", <<h_ab, t_pre_ab>>, <<>>, <<r_bad, r_up>>), Rec("", "", <<t_pre_ab>>, <<>>, <<r_www>>)>>}

AsyncURLs ==
  {[Scheme |-> str_http, Host |-> h_ab, Path |-> path_x],
   [Scheme |-> str_http, Host |-> h_cab, Path |-> <<>>],
   [Scheme |-> str_https, Host |-> h_ab, Path |-> <<>>],
   [Scheme |-> str_HTTP, Host |-> h_ab, Path |-> <<>>]}

\* newEmpty, followed by initAsync: both indexes hold their empty value,
\* readTimings waits on the channel and the goroutine running init is
\* about to start.
InitCommon ==
  /\ pc = [c \in Callers |-> "idle"]
  /\ url = [c \in Callers |-> NoURL]
  /\ res = [c \in Callers |-> Miss]
  /\ seen = [c \in Callers |-> NoSteps]
  /\ statsCh = NoTiming
  /\ statsPc = "recv"
  /\ stats = [runs |-> 0, totalTime |-> 0, max |-> 0, maxHost |-> <<>>]
  /\ returned = 0
  /\ laterDefaults = <<>>

\* A variant of newEmpty whose atomic values already hold the built indexes.
Init_Prebuilt ==
  /\ bundle \in AsyncBundles
  /\ decodeOk \in BOOLEAN
  /\ plainTargets = [gen |-> 0, m |-> newRulesets(bundle, TRUE).plains]
  /\ wildcardTargets = [gen |-> 0, m |-> newRulesets(bundle, TRUE).wildcards]
  /\ buildPc = "start"
  /\ buildLocal = [plains |-> EmptyMap, wildcards |-> EmptyMap]
  /\ deserializations = 0
  /\ InitCommon

Init ==
  /\ bundle \in AsyncBundles
  /\ decodeOk \in BOOLEAN
  /\ plainTargets = [gen |-> 0, m |-> EmptyMap]
  /\ wildcardTargets = [gen |-> 0, m |-> EmptyMap]
  /\ buildPc = "start"
  /\ buildLocal = [plains |-> EmptyMap, wildcards |-> EmptyMap]
  /\ deserializations = 0
  /\ InitCommon

\* init: d.newRulesets() and the error check.
InitBuild ==
  /\ buildPc = "start"
  /\ deserializations' = deserializations + 1
  /\ LET r == newRulesets(bundle, decodeOk) IN
     IF r.err
     THEN /\ buildPc' = "failed"
          /\ UNCHANGED buildLocal
     ELSE /\ buildPc' = "built"
          /\ buildLocal' = [plains |-> r.plains, wildcards |-> r.wildcards]
  /\ UNCHANGED <<bundle, decodeOk, plainTargets, wildcardTargets,
                 pc, url, res, seen, statsCh, statsPc, stats, returned,
                 laterDefaults>>

\* init: h.plainTargets.Store(plain)
InitStorePlain ==
  /\ buildPc = "built"
  /\ plainTargets' = [gen |-> plainTargets.gen + 1, m |-> buildLocal.plains]
  /\ buildPc' = "plainStored"
  /\ UNCHANGED <<bundle, decodeOk, wildcardTargets, buildLocal,
                 pc, url, res, seen, statsCh, statsPc, stats, returned,
                 laterDefaults, deserializations>>

\* A variant of init whose second Store puts an empty tree in place.
InitStoreWildcard_Empty ==
  /\ buildPc = "plainStored"
  /\ wildcardTargets' = [gen |-> wildcardTargets.gen + 1, m |-> EmptyMap]
  /\ buildPc' = "done"
  /\ UNCHANGED <<bundle, decodeOk, plainTargets, buildLocal,
                 pc, url, res, seen, statsCh, statsPc, stats, returned,
                 laterDefaults, deserializations>>

\* init: h.wildcardTargets.Store(wildcard)
InitStoreWildcard ==
  /\ buildPc = "plainStored"
  /\ wildcardTargets' = [gen |-> wildcardTargets.gen + 1, m |-> buildLocal.wildcards]
  /\ buildPc' = "done"
  /\ UNCHANGED <<bundle, decodeOk, plainTargets, buildLocal,
                 pc, url, res, seen, statsCh, statsPc, stats, returned,
                 laterDefaults, deserializations>>

\* A variant of the scheme guard that lets every scheme through.
SchemeRejected_Never(u) == FALSE

SchemeRejected(u) == u.Scheme # str_http

\* rewrite: the scheme guard and the start of the timing.
RewriteCall(c, u) ==
  /\ pc[c] = "idle"
  /\ url' = [url EXCEPT ![c] = u]
  /\ seen' = [seen EXCEPT ![c] = NoSteps]
  /\ IF SchemeRejected(u)
     THEN /\ res' = [res EXCEPT ![c] = Miss]
          /\ pc' = [pc EXCEPT ![c] = "ret"]
     ELSE /\ stats.runs + InFlight < MaxRuns
          /\ res' = [res EXCEPT ![c] = Miss]
          /\ pc' = [pc EXCEPT ![c] = "plain"]
  /\ UNCHANGED <<bundle, decodeOk, plainTargets, wildcardTargets, buildPc,
                 buildLocal, statsCh, statsPc, stats, returned,
                 laterDefaults, deserializations>>

\* One lookup step: the entry found (if any) is evaluated against the URL.
StepOf(gen, found, key, val, u) ==
  LET r == IF found THEN rewriteWithRuleset(u, val) ELSE Miss IN
  [step |-> [run |-> TRUE, gen |-> gen, match |-> found,
             key |-> IF found THEN key ELSE <<>>,
             val |-> IF found THEN val ELSE NoRuleset,
             hit |-> r.hit, str |-> r.str],
   out |-> r]

\* A variant of the exact-host lookup that takes the entry it used out of
\* the plain map.
RewritePlain_Consume(c) ==
  /\ pc[c] = "plain"
  /\ LET m == plainTargets.m
         found == url[c].Host \in DOMAIN m
         s == StepOf(plainTargets.gen, found, url[c].Host,
                     IF found THEN m[url[c].Host] ELSE NoRuleset, url[c])
     IN /\ seen' = [seen EXCEPT ![c].plain = s.step]
        /\ plainTargets' =
             [plainTargets EXCEPT !.m = [k \in DOMAIN m \ {url[c].Host} |-> m[k]]]
        /\ IF s.out.hit
           THEN /\ res' = [res EXCEPT ![c] = s.out]
                /\ pc' = [pc EXCEPT ![c] = "send"]
           ELSE /\ UNCHANGED res
                /\ pc' = [pc EXCEPT ![c] = "prefix"]
  /\ UNCHANGED <<bundle, decodeOk, wildcardTargets, buildPc,
                 buildLocal, url, statsCh, statsPc, stats, returned,
                 laterDefaults, deserializations>>

\* A variant of the exact-host lookup that goes on to the wildcard lookups
\* even after a rewrite, keeping the rewrite only if they find none.
RewritePlain_GoOn(c) ==
  /\ pc[c] = "plain"
  /\ LET m == plainTargets.m
         found == url[c].Host \in DOMAIN m
         s == StepOf(plainTargets.gen, found, url[c].Host,
                     IF found THEN m[url[c].Host] ELSE NoRuleset, url[c])
     IN /\ seen' = [seen EXCEPT ![c].plain = s.step]
        /\ res' = [res EXCEPT ![c] = s.out]
        /\ pc' = [pc EXCEPT ![c] = "prefix"]
  /\ UNCHANGED <<bundle, decodeOk, plainTargets, wildcardTargets, buildPc,
                 buildLocal, url, statsCh, statsPc, stats, returned,
                 laterDefaults, deserializations>>

\* rewrite: the exact-host lookup in the plain map.
RewritePlain(c) ==
  /\ pc[c] = "plain"
  /\ LET m == plainTargets.m
         found == url[c].Host \in DOMAIN m
         s == StepOf(plainTargets.gen, found, url[c].Host,
                     IF found THEN m[url[c].Host] ELSE NoRuleset, url[c])
     IN /\ seen' = [seen EXCEPT ![c].plain = s.step]
        /\ IF s.out.hit
           THEN /\ res' = [res EXCEPT ![c] = s.out]
                /\ pc' = [pc EXCEPT ![c] = "send"]
           ELSE /\ UNCHANGED res
                /\ pc' = [pc EXCEPT ![c] = "prefix"]
  /\ UNCHANGED <<bundle, decodeOk, plainTargets, wildcardTargets, buildPc,
                 buildLocal, url, statsCh, statsPc, stats, returned,
                 laterDefaults, deserializations>>

\* rewrite: the longest-prefix lookup of the reversed host.
RewritePrefix(c) ==
  /\ pc[c] = "prefix"
  /\ LET lp == LongestPrefix(wildcardTargets.m, reverse(url[c].Host))
         s == StepOf(wildcardTargets.gen, lp.match, lp.key, lp.val, url[c])
     IN /\ seen' = [seen EXCEPT ![c].prefix = s.step]
        /\ IF s.out.hit
           THEN /\ res' = [res EXCEPT ![c] = s.out]
                /\ pc' = [pc EXCEPT ![c] = "send"]
           ELSE /\ UNCHANGED res
                /\ pc' = [pc EXCEPT ![c] = "suffix"]
  /\ UNCHANGED <<bundle, decodeOk, plainTargets, wildcardTargets, buildPc,
                 buildLocal, url, statsCh, statsPc, stats, returned,
                 laterDefaults, deserializations>>

\* rewrite: the longest-prefix lookup of the host as it is.
RewriteSuffix(c) ==
  /\ pc[c] = "suffix"
  /\ LET lp == LongestPrefix(wildcardTargets.m, url[c].Host)
         s == StepOf(wildcardTargets.gen, lp.match, lp.key, lp.val, url[c])
     IN /\ seen' = [seen EXCEPT ![c].suffix = s.step]
        /\ res' = [res EXCEPT ![c] = s.out]
        /\ pc' = [pc EXCEPT ![c] = "send"]
  /\ UNCHANGED <<bundle, decodeOk, plainTargets, wildcardTargets, buildPc,
                 buildLocal, url, statsCh, statsPc, stats, returned,
                 laterDefaults, deserializations>>

\* A variant of the deferred send that gives the sample up when readTimings
\* is not ready to receive.
StatsSend_Drop(c, d) ==
  /\ pc[c] = "send"
  /\ returned < MaxRuns
  /\ IF statsPc = "recv"
     THEN /\ statsCh' = [host |-> String(url[c]), dur |-> d]
          /\ statsPc' = "add"
     ELSE UNCHANGED <<statsCh, statsPc>>
  /\ pc' = [pc EXCEPT ![c] = "ret"]
  /\ returned' = returned + 1
  /\ UNCHANGED <<bundle, decodeOk, plainTargets, wildcardTargets, buildPc,
                 buildLocal, url, res, seen, stats,
                 laterDefaults, deserializations>>

\* rewrite: the deferred send on the unbuffered statsCh, which completes
\* when readTimings receives; the call then returns.
StatsSend(c, d) ==
  /\ pc[c] = "send"
  /\ statsPc = "recv"
  /\ statsCh' = [host |-> String(url[c]), dur |-> d]
  /\ statsPc' = "add"
  /\ pc' = [pc EXCEPT ![c] = "ret"]
  /\ returned' = returned + 1
  /\ UNCHANGED <<bundle, decodeOk, plainTargets, wildcardTargets, buildPc,
                 buildLocal, url, res, seen, stats,
                 laterDefaults, deserializations>>

\* readTimings: h.stats.addTiming(t)
ReadTimings ==
  /\ statsPc = "add"
  /\ stats' = addTiming(stats, statsCh)
  /\ statsCh' = NoTiming
  /\ statsPc' = "recv"
  /\ UNCHANGED <<bundle, decodeOk, plainTargets, wildcardTargets, buildPc,
                 buildLocal, pc, url, res, seen, returned,
                 laterDefaults, deserializations>>

\* The caller has taken the result; it may call again.
RewriteReturn(c) ==
  /\ pc[c] = "ret"
  /\ pc' = [pc EXCEPT ![c] = "idle"]
  /\ url' = [url EXCEPT ![c] = NoURL]
  /\ res' = [res EXCEPT ![c] = Miss]
  /\ seen' = [seen EXCEPT ![c] = NoSteps]
  /\ UNCHANGED <<bundle, decodeOk, plainTargets, wildcardTargets, buildPc,
                 buildLocal, statsCh, statsPc, stats, returned,
                 laterDefaults, deserializations>>

Next ==
  \/ InitBuild
  \/ InitStorePlain
  \/ InitStoreWildcard
  \/ \E c \in Callers, u \in AsyncURLs : RewriteCall(c, u)
  \/ \E c \in Callers : RewritePlain(c)
  \/ \E c \in Callers : RewritePrefix(c)
  \/ \E c \in Callers : RewriteSuffix(c)
  \/ \E c \in Callers, d \in Durations : StatsSend(c, d)
  \/ ReadTimings
  \/ \E c \in Callers : RewriteReturn(c)

Spec == Init /\ [][Next]_vars

\* newSync: init has run to its end before rewrite is handed out, and one
\* caller uses it.
InitSync ==
  /\ bundle \in Bundles
  /\ decodeOk = TRUE
  /\ LET r == newRulesets(bundle, TRUE) IN
     /\ plainTargets = [gen |-> 1, m |-> r.plains]
     /\ wildcardTargets = [gen |-> 1, m |-> r.wildcards]
     /\ buildLocal = [plains |-> r.plains, wildcards |-> r.wildcards]
  /\ buildPc = "done"
  /\ deserializations = 1
  /\ InitCommon

NextSync ==
  \/ \E u \in URLs : RewriteCall(1, u)
  \/ RewritePlain(1)
  \/ RewritePrefix(1)
  \/ RewriteSuffix(1)
  \/ StatsSend(1, 0)
  \/ ReadTimings
  \/ RewriteReturn(1)

SpecSync == InitSync /\ [][NextSync]_vars

\* Further calls of Default() in the same process.

MaxDefaults == 2

\* newEmpty, as far as the build is concerned: a new httpse whose initOnce
\* has not run and which has no goroutine running init.
newEmptyOnce == [initOnce |-> FALSE, initPc |-> "none"]

\* initAsync: initOnce.Do starts the goroutine running init unless this
\* httpse's initOnce has already run.
initAsync(h) ==
  IF h.initOnce THEN h ELSE [initOnce |-> TRUE, initPc |-> "start"]

\* Default(), called again: h := newEmpty(); h.initAsync(); return h.rewrite
Default ==
  /\ 1 + Len(laterDefaults) < MaxDefaults
  /\ laterDefaults' = Append(laterDefaults, initAsync(newEmptyOnce))
  /\ UNCHANGED <<bundle, decodeOk, plainTargets, wildcardTargets, buildPc,
                 buildLocal, pc, url, res, seen, statsCh, statsPc, stats,
                 returned, deserializations>>

\* init of the httpse made by a later Default(): d.newRulesets() and the
\* stores into that httpse's own index holders.
InitLater(i) ==
  /\ laterDefaults[i].initPc = "start"
  /\ deserializations' = deserializations + 1
  /\ laterDefaults' = [laterDefaults EXCEPT ![i].initPc = "done"]
  /\ UNCHANGED <<bundle, decodeOk, plainTargets, wildcardTargets, buildPc,
                 buildLocal, pc, url, res, seen, statsCh, statsPc, stats,
                 returned>>

NextDefaults ==
  \/ Default
  \/ \E i \in 1..Len(laterDefaults) : InitLater(i)
  \/ InitBuild
  \/ InitStorePlain
  \/ InitStoreWildcard
  \/ \E c \in Callers, u \in AsyncURLs : RewriteCall(c, u)
  \/ \E c \in Callers : RewritePlain(c)
  \/ \E c \in Callers : RewritePrefix(c)
  \/ \E c \in Callers : RewriteSuffix(c)
  \/ \E c \in Callers, d \in Durations : StatsSend(c, d)
  \/ ReadTimings
  \/ \E c \in Callers : RewriteReturn(c)

SpecDefaults == Init /\ [][NextDefaults]_vars

TypeOK ==
  /\ buildPc \in {"start", "built", "plainStored", "done", "failed"}
  /\ pc \in [Callers -> {"idle", "plain", "prefix", "suffix", "send", "ret"}]
  /\ statsPc \in {"recv", "add"}
  /\ stats.runs \in 0..MaxRuns
  /\ returned \in 0..MaxRuns

-----------------------------------------------------------------------------
(* Properties *)

Steps(c) == {seen[c].plain, seen[c].prefix, seen[c].suffix}

ExclusionMatches(rs, u) ==
  \E i \in 1..Len(rs.exclusion) : MatchString(rs.exclusion[i].pattern, u)

MatchingRules(rs, u) == {i \in 1..Len(rs.rule) : MatchString(rs.rule[i].from, u)}

\* C1: a call whose URL has a scheme other than the lowercase "http" returns
\* ("", false) and consults no index, whatever the indexes hold.
C1_SchemeGuard ==
  \A c \in Callers :
    (pc[c] # "idle" /\ url[c].Scheme # str_http) =>
      /\ pc[c] = "ret"
      /\ res[c] = Miss
      /\ \A s \in Steps(c) : ~s.run

\* A call with an https URL has returned while the published plain map holds,
\* for the URL's host, a rule set with a rule that matches the URL.
C1_Witness ==
  \E c \in Callers :
    /\ pc[c] = "ret"
    /\ url[c].Scheme = str_https
    /\ plainTargets.gen = 1
    /\ url[c].Host \in DOMAIN plainTargets.m
    /\ MatchingRules(plainTargets.m[url[c].Host], String(url[c])) # {}

\* C2: a call returns hit=true exactly when a lookup step of the call found a
\* rule set of which no exclusion and at least one rule matched the URL; the
\* returned string is then the replacement of the URL by a matching rule of
\* that rule set, and with hit=false the returned string is empty.
C2_HitIffRuleRewrote ==
  \A c \in Callers :
    pc[c] \in {"send", "ret"} =>
      LET u == String(url[c]) IN
      /\ res[c].hit <=>
           \E s \in Steps(c) :
             /\ s.run /\ s.match
             /\ ~ExclusionMatches(s.val, u)
             /\ MatchingRules(s.val, u) # {}
      /\ res[c].hit =>
           \E s \in Steps(c) :
             /\ s.run /\ s.match
             /\ \E i \in MatchingRules(s.val, u) :
                  res[c].str = ReplaceAllString(s.val.rule[i].from, u, s.val.rule[i].to)
      /\ ~res[c].hit => res[c].str = <<>>

\* A call has returned a miss after a step evaluated a rule set whose
\* exclusion matched the URL, and another call has returned a rewrite.
C2_Witness ==
  /\ \E c \in Callers :
       /\ pc[c] = "ret" /\ ~res[c].hit
       /\ \E s \in Steps(c) : s.run /\ s.match /\ ExclusionMatches(s.val, String(url[c]))
  /\ \E c \in Callers : pc[c] = "ret" /\ res[c].hit /\ res[c].str # String(url[c])

\* C3: when an exclusion of the evaluated rule set matches the URL, the
\* evaluation returns ("", false) even if a rule of the rule set matches; when
\* no exclusion matches, the evaluation hits exactly when some rule matches.
C3_ExclusionPrecedence ==
  \A c \in Callers :
    \A s \in Steps(c) :
      (s.run /\ s.match) =>
        LET u == String(url[c]) IN
        /\ ExclusionMatches(s.val, u) => (~s.hit /\ s.str = <<>>)
        /\ ~ExclusionMatches(s.val, u) => (s.hit <=> MatchingRules(s.val, u) # {})

\* A step has evaluated a rule set of which an exclusion and a rule both
\* match the URL.
C3_Witness ==
  \E c \in Callers :
    \E s \in Steps(c) :
      /\ s.run /\ s.match
      /\ ExclusionMatches(s.val, String(url[c]))
      /\ MatchingRules(s.val, String(url[c])) # {}

\* C4: the rules of an indexed rule set are those of its bundle record, in
\* the record's order; when no exclusion matches, the evaluation returns the
\* replacement by the first of them whose from pattern matches the URL, and
\* ("", false) when none matches.
C4_FirstRuleWins ==
  \A c \in Callers :
    \A s \in Steps(c) :
      (s.run /\ s.match) =>
        LET u == String(url[c])
            R == bundle[s.val.id].Rule
            ms == {i \in 1..Len(R) : MatchString(Compile(R[i].From), u)}
        IN
        /\ Len(s.val.rule) = Len(R)
        /\ \A i \in 1..Len(R) : s.val.rule[i].from = Compile(R[i].From)
        /\ ~ExclusionMatches(s.val, u) =>
             IF ms = {}
             THEN ~s.hit /\ s.str = <<>>
             ELSE LET k == CHOOSE x \in ms : \A y \in ms : x <= y IN
                  /\ s.hit
                  /\ s.str = ReplaceAllString(s.val.rule[k].from, u, s.val.rule[k].to)

\* A step has evaluated a rule set of which two rules match the URL and give
\* different replacements.
C4_Witness ==
  \E c \in Callers :
    \E s \in Steps(c) :
      /\ s.run /\ s.match /\ s.hit
      /\ LET u == String(url[c]) IN
         \E i, j \in MatchingRules(s.val, u) :
           /\ i < j
           /\ ReplaceAllString(s.val.rule[i].from, u, s.val.rule[i].to)
                # ReplaceAllString(s.val.rule[j].from, u, s.val.rule[j].to)

-----------------------------------------------------------------------------
(* Targets as the rule-set format defines them *)

Rev(x) == [i \in 1..Len(x) |-> x[Len(x) + 1 - i]]

Active(rs) == rs.Off = "" /\ rs.Platform # "mixedcontent"

Compilable(rs) ==
  /\ \A i \in 1..Len(rs.Exclusion) : ~CompileError(rs.Exclusion[i])
  /\ \A i \in 1..Len(rs.Rule) : ~CompileError(rs.Rule[i].From)

Indexed(rs) == Active(rs) /\ Compilable(rs)

TargetsOf(rs) == {rs.Target[i] : i \in 1..Len(rs.Target)}

IsPrefixWildcard(t) == Len(t) > 1 /\ t[1] = "*" /\ t[Len(t)] # "*"

IsSuffixWildcard(t) == Len(t) > 1 /\ t[Len(t)] = "*" /\ t[1] # "*"

IsExact(t) == Len(t) > 0 /\ t[1] # "*" /\ t[Len(t)] # "*"

\* *.D covers the hosts L.D with L not empty; P.* covers the hosts that
\* begin with "P."; an exact target covers the host equal to it.
Covers(t, h) ==
  IF IsExact(t) THEN h = t
  ELSE IF IsPrefixWildcard(t) THEN HasSuffix(h, Tail(t)) /\ Len(h) > Len(t) - 1
  ELSE IF IsSuffixWildcard(t) THEN HasPrefix(h, SubSeq(t, 1, Len(t) - 1))
  ELSE FALSE

\* The call of c has returned from the lookup step named.
PlainDone(c) == seen[c].plain.run

\* C5: an http call on host H evaluates, in the exact-host step, the rule set
\* of the one active record that lists the exact target H; all exact targets
\* of such a record lead to the same rule set; and a call on a host that no
\* target of an active record covers returns ("", false).
C5_ExactTargets ==
  /\ \A c \in Callers :
       \A i \in 1..Len(bundle) :
         ( /\ PlainDone(c)
           /\ Indexed(bundle[i])
           /\ url[c].Host \in TargetsOf(bundle[i])
           /\ IsExact(url[c].Host)
           /\ \A j \in 1..Len(bundle) :
                (j # i /\ Indexed(bundle[j])) => url[c].Host \notin TargetsOf(bundle[j]) )
         => (seen[c].plain.match /\ seen[c].plain.val.id = i)
  /\ \A i \in 1..Len(bundle) :
       \A t1, t2 \in TargetsOf(bundle[i]) :
         ( /\ plainTargets.gen = 1
           /\ Indexed(bundle[i])
           /\ IsExact(t1) /\ IsExact(t2)
           /\ \A j \in 1..Len(bundle) :
                (j # i /\ Indexed(bundle[j])) =>
                  (t1 \notin TargetsOf(bundle[j]) /\ t2 \notin TargetsOf(bundle[j])) )
         => ( /\ t1 \in DOMAIN plainTargets.m
              /\ t2 \in DOMAIN plainTargets.m
              /\ plainTargets.m[t1] = plainTargets.m[t2] )
  /\ \A c \in Callers :
       ( /\ pc[c] = "ret"
         /\ \A i \in 1..Len(bundle) :
              Active(bundle[i]) =>
                \A t \in TargetsOf(bundle[i]) : ~Covers(t, url[c].Host) )
       => res[c] = Miss

\* C8: no entry of a published index comes from a record that is switched
\* off or restricted to mixed content, and a call on a host that only such
\* records cover returns ("", false).
C8_DisabledInert ==
  /\ \A k \in DOMAIN plainTargets.m : Active(bundle[plainTargets.m[k].id])
  /\ \A k \in DOMAIN wildcardTargets.m : Active(bundle[wildcardTargets.m[k].id])
  /\ \A c \in Callers :
       ( /\ pc[c] = "ret"
         /\ \E i \in 1..Len(bundle) :
              ~Active(bundle[i]) /\ \E t \in TargetsOf(bundle[i]) : Covers(t, url[c].Host)
         /\ \A i \in 1..Len(bundle) :
              Active(bundle[i]) =>
                \A t \in TargetsOf(bundle[i]) : ~Covers(t, url[c].Host) )
       => res[c] = Miss

\* C9: no rule of a published index has the replacement "http:", the other
\* rules of its record are kept, and a call whose URL is matched only by
\* rules with that replacement returns ("", false).
C9_NoDowngrade ==
  /\ \A k \in DOMAIN plainTargets.m :
       \A i \in 1..Len(plainTargets.m[k].rule) : plainTargets.m[k].rule[i].to # to_http
  /\ \A k \in DOMAIN wildcardTargets.m :
       \A i \in 1..Len(wildcardTargets.m[k].rule) : wildcardTargets.m[k].rule[i].to # to_http
  /\ \A k \in DOMAIN plainTargets.m :
       LET R == bundle[plainTargets.m[k].id].Rule IN
       Len(plainTargets.m[k].rule) = Cardinality({i \in 1..Len(R) : R[i].To # to_http})
  /\ \A c \in Callers :
       ( /\ pc[c] = "ret"
         /\ \A i \in 1..Len(bundle) :
              \A j \in 1..Len(bundle[i].Rule) :
                (~CompileError(bundle[i].Rule[j].From)
                   /\ MatchString(Compile(bundle[i].Rule[j].From), String(url[c])))
                => bundle[i].Rule[j].To = to_http )
       => res[c] = Miss

\* C10: the lookup steps of one call all read the indexes of the same
\* publication: either both empty indexes of newEmpty or both built ones.
C10_PublicationAtomic ==
  \A c \in Callers :
    \A s1, s2 \in Steps(c) :
      (s1.run /\ s2.run) => s1.gen = s2.gen

-----------------------------------------------------------------------------
(* Wildcard targets *)

IsDotPrefixWildcard(t) == IsPrefixWildcard(t) /\ Len(t) > 2 /\ t[2] = "."

IsDotSuffixWildcard(t) == IsSuffixWildcard(t) /\ Len(t) > 2 /\ t[Len(t) - 1] = "."

\* The tree key of a wildcard target: the reversed ".D" of *.D, the "P." of P.*
KeyOf(t) == IF IsSuffixWildcard(t) THEN SubSeq(t, 1, Len(t) - 1) ELSE Rev(Tail(t))

\* No record after record i stores a target under key k.
LastStoring(i, k) ==
  \A j \in (i + 1)..Len(bundle) :
    Indexed(bundle[j]) =>
      \A t \in TargetsOf(bundle[j]) :
        ~((IsPrefixWildcard(t) \/ IsSuffixWildcard(t)) /\ KeyOf(t) = k)

\* The step found the entry under the longest stored key that is a prefix of
\* the lookup string s; under the key k of record i that entry is the rule
\* set of record i, unless a later record stored the same key.
FoundLongest(step, s, k, i) ==
  /\ step.match
  /\ step.key \in DOMAIN wildcardTargets.m
  /\ HasPrefix(s, step.key)
  /\ \A x \in DOMAIN wildcardTargets.m : HasPrefix(s, x) => Len(x) <= Len(step.key)
  /\ step.val = wildcardTargets.m[step.key]
  /\ (step.key = k /\ LastStoring(i, k)) => step.val.id = i

\* The hosts that end with the characters of D but are not covered by *.D:
\* D itself and the hosts with another character than "." before D.
OnlyResembles(h, t) == HasSuffix(h, SubSeq(t, 3, Len(t))) /\ ~Covers(t, h)

WildcardsOf(rs) == {t \in TargetsOf(rs) : IsPrefixWildcard(t) \/ IsSuffixWildcard(t)}

\* No wildcard target is listed by two indexed records of the bundle.
OneOwner ==
  \A i, j \in 1..Len(bundle) :
    (i # j /\ Indexed(bundle[i]) /\ Indexed(bundle[j])) =>
      WildcardsOf(bundle[i]) \cap WildcardsOf(bundle[j]) = {}

OnlyPrefixWildcards ==
  \A i \in 1..Len(bundle) :
    Indexed(bundle[i]) => \A t \in WildcardsOf(bundle[i]) : IsDotPrefixWildcard(t)

OnlySuffixWildcards ==
  \A i \in 1..Len(bundle) :
    Indexed(bundle[i]) => \A t \in WildcardsOf(bundle[i]) : IsDotSuffixWildcard(t)

\* C6 as stated, on the bundles whose wildcard targets are all of the form
\* *.D and listed by one record each: for an active rule set with target *.D,
\* the reversed-host lookup of every host L.D selects that rule set, and it
\* does not find the key of *.D for the bare host D nor for a host that only
\* ends with D.
C6_PrefixSelectsOwnRuleset ==
  \A c \in Callers :
    \A i \in 1..Len(bundle) :
      \A t \in TargetsOf(bundle[i]) :
        ( /\ OnlyPrefixWildcards /\ OneOwner
          /\ seen[c].prefix.run /\ Indexed(bundle[i]) /\ IsDotPrefixWildcard(t) ) =>
          /\ Covers(t, url[c].Host) =>
               (seen[c].prefix.match /\ seen[c].prefix.val.id = i)
          /\ OnlyResembles(url[c].Host, t) =>
               ~(seen[c].prefix.match /\ seen[c].prefix.key = KeyOf(t))

\* C6 amended: the key of *.D is in the built tree; for every host L.D the
\* reversed-host lookup finds the entry under the longest stored key that is
\* a prefix of the reversed host, which is the rule set of *.D when no longer
\* stored key is such a prefix and no later record stored the same key; for
\* the bare host D and a host that only ends with D it never finds that key.
C6_PrefixWildcard ==
  \A i \in 1..Len(bundle) :
    \A t \in TargetsOf(bundle[i]) :
      (Indexed(bundle[i]) /\ IsDotPrefixWildcard(t)) =>
        /\ KeyOf(t) \in DOMAIN wildcardTargets.m
        /\ \A c \in Callers :
             seen[c].prefix.run =>
               /\ Covers(t, url[c].Host) =>
                    FoundLongest(seen[c].prefix, Rev(url[c].Host), KeyOf(t), i)
               /\ OnlyResembles(url[c].Host, t) =>
                    ~(seen[c].prefix.match /\ seen[c].prefix.key = KeyOf(t))

\* The reversed-host lookup of d.c.a.b has selected the rule set of *.a.b.
C6_Witness ==
  \E c \in Callers :
    \E i \in 1..Len(bundle) :
      /\ Indexed(bundle[i])
      /\ t_pre_ab \in TargetsOf(bundle[i])
      /\ url[c].Host = h_dcab
      /\ seen[c].prefix.run /\ seen[c].prefix.match
      /\ seen[c].prefix.key = KeyOf(t_pre_ab)
      /\ seen[c].prefix.val.id = i

\* C7 as stated, on the bundles whose wildcard targets are all of the form
\* P.* and listed by one record each: for an active rule set with target P.*,
\* the direct-host lookup, when the call reaches it, selects that rule set
\* for every host that begins with "P.".
C7_SuffixSelectsOwnRuleset ==
  \A c \in Callers :
    \A i \in 1..Len(bundle) :
      \A t \in TargetsOf(bundle[i]) :
        ( /\ OnlySuffixWildcards /\ OneOwner
          /\ seen[c].suffix.run
          /\ Indexed(bundle[i])
          /\ IsDotSuffixWildcard(t)
          /\ Covers(t, url[c].Host) )
        => (seen[c].suffix.match /\ seen[c].suffix.val.id = i)

\* C7 amended: the key of P.* is in the built tree; for every host that
\* begins with "P." the direct-host lookup, when the call reaches it, finds
\* the entry under the longest stored key that is a prefix of the host, which
\* is the rule set of P.* when no longer stored key is such a prefix and no
\* later record stored the same key.
C7_SuffixWildcard ==
  \A i \in 1..Len(bundle) :
    \A t \in TargetsOf(bundle[i]) :
      (Indexed(bundle[i]) /\ IsDotSuffixWildcard(t)) =>
        /\ KeyOf(t) \in DOMAIN wildcardTargets.m
        /\ \A c \in Callers :
             (seen[c].suffix.run /\ Covers(t, url[c].Host)) =>
               FoundLongest(seen[c].suffix, url[c].Host, KeyOf(t), i)

\* The direct-host lookup of a.c has selected the rule set of a.* after the
\* exact-host and the reversed-host lookups gave no rewrite.
C7_Witness ==
  \E c \in Callers :
    \E i \in 1..Len(bundle) :
      /\ Indexed(bundle[i])
      /\ t_suf_a \in TargetsOf(bundle[i])
      /\ url[c].Host = h_ac
      /\ seen[c].plain.run /\ ~seen[c].plain.hit
      /\ seen[c].prefix.run /\ ~seen[c].prefix.hit
      /\ seen[c].suffix.run /\ seen[c].suffix.match
      /\ seen[c].suffix.key = KeyOf(t_suf_a)
      /\ seen[c].suffix.val.id = i
      /\ res[c].hit

-----------------------------------------------------------------------------
(* Asynchronous build (Default, newEmpty, init, initAsync) *)

\* init has stored neither index yet.
Unpublished == buildPc \in {"start", "built", "failed"}

\* init has stored both indexes.
Published == buildPc = "done"

\* The caller's rewrite has computed its result.
Answered(c) == pc[c] \in {"send", "ret"}

initRuns ==
  /\ buildPc \in {"start", "built", "plainStored"}
  /\ buildPc' \in {"built", "failed", "plainStored", "done"}

lookupRuns(c) ==
  /\ pc[c] \in {"plain", "prefix", "suffix"}
  /\ pc' \in [Callers -> {"idle", "plain", "prefix", "suffix", "send", "ret"}]
  /\ pc'[c] # pc[c]

sendRuns(c) ==
  /\ pc[c] = "send"
  /\ statsPc = "recv"
  /\ pc' = [pc EXCEPT ![c] = "ret"]

Fairness ==
  /\ WF_buildPc(initRuns)
  /\ WF_vars(ReadTimings)
  /\ \A c \in Callers : WF_pc(lookupRuns(c)) /\ SF_pc(sendRuns(c))

SpecLive == Init /\ [][Next]_vars /\ Fairness

\* rewrite run from its first lookup to its return value against one plain
\* map and one tree.
rewriteSeq(plains, wildcards, u) ==
  LET found == u.Host \in DOMAIN plains
      p == StepOf(1, found, u.Host,
                  IF found THEN plains[u.Host] ELSE NoRuleset, u).out
      lpP == LongestPrefix(wildcards, reverse(u.Host))
      q == StepOf(1, lpP.match, lpP.key, lpP.val, u).out
      lpS == LongestPrefix(wildcards, u.Host)
      r == StepOf(1, lpS.match, lpS.key, lpS.val, u).out
  IN IF SchemeRejected(u) THEN Miss
     ELSE IF p.hit THEN p
     ELSE IF q.hit THEN q
     ELSE r

\* The indexes newRulesets builds from the bundle.
BuiltPlain == newRulesets(bundle, TRUE).plains

BuiltWildcard == newRulesets(bundle, TRUE).wildcards

\* C12: with a decodable bundle and fair scheduling init eventually stores
\* both built indexes, which then stay in place; every rewrite call past the
\* scheme guard eventually returns, and a call all of whose lookups read the
\* stored built indexes returns what the built indexes give for its URL,
\* the rewrite with hit = true where they have one.
C12_EventualPopulation ==
  /\ decodeOk ~> Published
  /\ \A c \in Callers : (pc[c] = "plain") ~> (pc[c] = "ret")
  /\ [][Published => Published']_vars
  /\ [](Published => /\ plainTargets.m = BuiltPlain
                     /\ wildcardTargets.m = BuiltWildcard)
  /\ [](\A c \in Callers :
         ( /\ Answered(c)
           /\ seen[c].plain.run
           /\ \A st \in Steps(c) : st.run => st.gen = 1 )
         => res[c] = rewriteSeq(BuiltPlain, BuiltWildcard, url[c]))

\* After publication a call has returned a rewrite found by the
\* prefix-wildcard lookup in the built tree.
C12_Witness ==
  /\ Published
  /\ decodeOk
  /\ \E c \in Callers :
       /\ pc[c] = "ret"
       /\ res[c].hit
       /\ seen[c].prefix.gen = 1
       /\ seen[c].prefix.hit
       /\ res[c] = rewriteSeq(BuiltPlain, BuiltWildcard, url[c])

-----------------------------------------------------------------------------
(* Timing samples (statsCh, readTimings, addTiming) *)

\* C13: a rewrite call never waits on the stats consumer: a call that has
\* reached its deferred send can always go on to return, whether or not
\* readTimings is ready to receive (the sample being dropped if it is not).
C13_SendNeverBlocks ==
  \A c \in Callers :
    pc[c] = "send" => ENABLED (\E d \in Durations : StatsSend(c, d))

\* C14: every rewrite call past the scheme guard leaves through its deferred
\* send whether its lookups hit or missed, and hands over exactly one sample
\* {host, duration} there; every sample handed over is added to the
\* counters exactly once and, under fair scheduling, eventually; so whenever
\* readTimings is idle, runs is the number of such calls that have returned,
\* for any number of concurrent callers.
C14_NoSampleLost ==
  /\ [](statsPc = "recv" => stats.runs = returned)
  /\ [](statsPc = "add" => stats.runs + 1 = returned)
  /\ [][\A c \in Callers :
          /\ (pc[c] \in {"plain", "prefix", "suffix"} /\ pc'[c] # pc[c])
               => pc'[c] \in {"prefix", "suffix", "send"}
          /\ (pc[c] = "send" /\ pc'[c] # pc[c])
               => /\ pc'[c] = "ret"
                  /\ statsPc = "recv" /\ statsPc' = "add"
                  /\ statsCh'.host = String(url[c])
                  /\ statsCh'.dur \in Durations
                  /\ returned' = returned + 1]_vars
  /\ [][stats'.runs # stats.runs =>
          /\ statsPc = "add" /\ statsPc' = "recv"
          /\ stats'.runs = stats.runs + 1]_vars
  /\ (statsPc = "add") ~> (statsPc = "recv")
  /\ \A c \in Callers : (pc[c] = "send") ~> (pc[c] = "ret")

\* Two concurrent calls, one with a rewrite and one with a miss, have both
\* returned and both samples have been counted.
C14_Witness ==
  /\ NCallers >= 2
  /\ pc[1] = "ret" /\ pc[2] = "ret"
  /\ res[1].hit /\ ~res[2].hit
  /\ ~SchemeRejected(url[2])
  /\ statsPc = "recv"
  /\ returned = 2
  /\ stats.runs = 2

-----------------------------------------------------------------------------
(* Repeated construction *)

\* C15: however many times Default() is called in one process, one after
\* another or concurrently, deserializer.newRulesets runs at most once.
C15_DeserializeAtMostOnce == deserializations <= 1

-----------------------------------------------------------------------------
(* Compilation of patterns *)

\* C16: in every state of every interleaving of the build with rewrite
\* calls, every rule set held by either index was made from a record all of
\* whose exclusion patterns and rule from-patterns compile, so a record with
\* a pattern that does not compile has none of its targets in either index;
\* the records after it are still processed: once the built indexes are
\* stored, every target of every active, compilable record has its entry;
\* and no lookup step of any call evaluates a rule set made from a record
\* with a pattern that does not compile.
C16_OnlyCompiledRulesets ==
  /\ \A k \in DOMAIN plainTargets.m :
       Compilable(bundle[plainTargets.m[k].id])
  /\ \A k \in DOMAIN wildcardTargets.m :
       Compilable(bundle[wildcardTargets.m[k].id])
  /\ \A i \in 1..Len(bundle) : \A t \in TargetsOf(bundle[i]) :
       Indexed(bundle[i]) =>
         /\ (plainTargets.gen = 1 /\ IsExact(t)) => t \in DOMAIN plainTargets.m
         /\ (wildcardTargets.gen = 1 /\ ~IsExact(t))
              => KeyOf(t) \in DOMAIN wildcardTargets.m
  /\ \A c \in Callers : \A st \in Steps(c) :
       st.match => Compilable(bundle[st.val.id])

\* The first record of the bundle has a pattern that does not compile and
\* targets a.b and *.a.b; the second record compiles and targets *.a.b.
\* After the build a.b has no entry, and a call for c.a.b has been rewritten
\* by the second record.
C16_Witness ==
  /\ buildPc = "done"
  /\ Len(bundle) = 2
  /\ Active(bundle[1]) /\ ~Compilable(bundle[1])
  /\ h_ab \in TargetsOf(bundle[1])
  /\ h_ab \notin DOMAIN plainTargets.m
  /\ \E c \in Callers :
       /\ pc[c] = "ret"
       /\ url[c].Host = h_cab
       /\ seen[c].prefix.gen = 1
       /\ seen[c].prefix.val.id = 2
       /\ res[c].hit

-----------------------------------------------------------------------------
(* Decode failure *)

\* C17: when decoding the bundle fails, init stores nothing: both index
\* holders keep the empty value stored by newEmpty for ever, and every
\* rewrite call returns ("", false).
C17_DecodeFailureLeavesEmpty ==
  ~decodeOk =>
    /\ buildPc \in {"start", "failed"}
    /\ plainTargets = [gen |-> 0, m |-> EmptyMap]
    /\ wildcardTargets = [gen |-> 0, m |-> EmptyMap]
    /\ \A c \in Callers :
         /\ \A st \in Steps(c) : st.run => ~st.match
         /\ Answered(c) => res[c] = Miss

\* init has given up after the decode error, and a call made after that,
\* for an http URL that the records of the bundle would rewrite, has
\* returned a miss.
C17_Witness ==
  /\ ~decodeOk
  /\ buildPc = "failed"
  /\ \E c \in Callers :
       /\ pc[c] = "ret"
       /\ seen[c].suffix.run
       /\ res[c] = Miss
       /\ rewriteSeq(BuiltPlain, BuiltWildcard, url[c]).hit

-----------------------------------------------------------------------------
(* Determinism *)

\* All the lookups the call of c has made read the stored built indexes.
ReadBuilt(c) == \A st \in Steps(c) : st.run => st.gen = 1

\* C18: once the built indexes are stored no step changes them, whatever
\* rewrite calls and stats processing run; the result of a call whose
\* lookups read the stored built indexes is a function of its URL alone, so
\* any two such calls with the same URL return the same (string, hit) pair.
C18_Deterministic ==
  /\ [][Published => UNCHANGED <<plainTargets, wildcardTargets>>]_vars
  /\ [](\A c \in Callers :
         (Published /\ Answered(c) /\ ReadBuilt(c))
           => res[c] = rewriteSeq(plainTargets.m, wildcardTargets.m, url[c]))
  /\ [](\A c1, c2 \in Callers :
         ( /\ Answered(c1) /\ Answered(c2)
           /\ ReadBuilt(c1) /\ ReadBuilt(c2)
           /\ url[c1] = url[c2] )
         => res[c1] = res[c2])

\* Two calls with the same URL have both been rewritten from the built
\* indexes, the sample of one of them already counted in between.
C18_Witness ==
  /\ Published
  /\ NCallers >= 2
  /\ pc[1] = "ret" /\ pc[2] \in {"send", "ret"}
  /\ url[1] = url[2]
  /\ ReadBuilt(1) /\ ReadBuilt(2)
  /\ seen[1].plain.run /\ seen[2].plain.run
  /\ res[1].hit /\ res[2] = res[1]
  /\ stats.runs >= 1

-----------------------------------------------------------------------------
(* Order and finality of the lookup steps *)

\* The lookup step found a rule set and the rule set declined: one of its
\* exclusions matched or none of its rules did.
Declined(st) == st.run /\ st.match /\ ~st.hit

\* C19: the verdict of the first rule set found is final: when the
\* exact-host rule set declines, neither wildcard lookup is made and the
\* call returns ("", false); when the prefix-wildcard rule set declines,
\* the suffix-wildcard lookup is not made and the call returns ("", false).
C19_VerdictFinal ==
  \A c \in Callers :
    /\ Declined(seen[c].plain) =>
         /\ ~seen[c].prefix.run /\ ~seen[c].suffix.run
         /\ Answered(c) => res[c] = Miss
    /\ Declined(seen[c].prefix) =>
         /\ ~seen[c].suffix.run
         /\ Answered(c) => res[c] = Miss

\* What each lookup step gives for URL u on the stored indexes, taken alone.
ExactResult(u) ==
  IF u.Host \in DOMAIN plainTargets.m
  THEN rewriteWithRuleset(u, plainTargets.m[u.Host])
  ELSE Miss

PrefixResult(u) ==
  LET lp == LongestPrefix(wildcardTargets.m, reverse(u.Host))
  IN IF lp.match THEN rewriteWithRuleset(u, lp.val) ELSE Miss

SuffixResult(u) ==
  LET lp == LongestPrefix(wildcardTargets.m, u.Host)
  IN IF lp.match THEN rewriteWithRuleset(u, lp.val) ELSE Miss

\* C20: with the built indexes in place, a call for an http URL returns the
\* rewrite of the earliest lookup step that produces one, in the order
\* exact host, prefix wildcard (reversed host), suffix wildcard (host as it
\* is): the exact-host rewrite if there is one, else the prefix-wildcard
\* rewrite if there is one, else what the suffix-wildcard step gives.
C20_LookupOrder ==
  \A c \in Callers :
    (Published /\ pc[c] = "ret" /\ ReadBuilt(c) /\ ~SchemeRejected(url[c])) =>
      LET u == url[c] IN
      /\ ExactResult(u).hit => res[c] = ExactResult(u)
      /\ (~ExactResult(u).hit /\ PrefixResult(u).hit) => res[c] = PrefixResult(u)
      /\ (~ExactResult(u).hit /\ ~PrefixResult(u).hit) => res[c] = SuffixResult(u)

\* The exact-host step and the prefix-wildcard step would both rewrite the
\* URL, to different strings, and the call has returned the exact-host one.
C20_Witness ==
  \E c \in Callers :
    /\ Published /\ pc[c] = "ret" /\ ReadBuilt(c)
    /\ ExactResult(url[c]).hit
    /\ PrefixResult(url[c]).hit
    /\ ExactResult(url[c]) # PrefixResult(url[c])
    /\ res[c] = ExactResult(url[c])

-----------------------------------------------------------------------------
(* Wildcard keys in the shared tree *)

\* C21: a lookup step finds a rule set only for a host that one of the rule
\* set's own targets covers under the shape of that target: the exact-host
\* step for an exact target equal to the host, the reversed-host step for a
\* prefix wildcard whose literal part ends the host, the direct-host step
\* for a suffix wildcard whose literal part begins the host.  So the key of
\* a suffix wildcard is never found by the reversed-host lookup and the key
\* of a prefix wildcard is never found by the direct-host lookup.
C21_OwnTargetsOnly ==
  \A c \in Callers :
    /\ seen[c].plain.match =>
         \E t \in TargetsOf(bundle[seen[c].plain.val.id]) :
           IsExact(t) /\ Covers(t, url[c].Host)
    /\ seen[c].prefix.match =>
         \E t \in TargetsOf(bundle[seen[c].prefix.val.id]) :
           IsPrefixWildcard(t) /\ Covers(t, url[c].Host)
    /\ seen[c].suffix.match =>
         \E t \in TargetsOf(bundle[seen[c].suffix.val.id]) :
           IsSuffixWildcard(t) /\ Covers(t, url[c].Host)

-----------------------------------------------------------------------------
(* Snapshot of one call *)

\* C22: a rewrite call reads the stored indexes once: its prefix-wildcard
\* and suffix-wildcard lookups run against the value its exact-host lookup
\* read, also when init stores in the middle of the call; in particular the
\* two wildcard lookups of one call see the same tree.
C22_SingleSnapshot ==
  \A c \in Callers :
    LET first == seen[c].plain.gen IN
    /\ seen[c].prefix.run => seen[c].prefix.gen = first
    /\ seen[c].suffix.run =>
         /\ seen[c].suffix.gen = first
         /\ seen[c].suffix.gen = seen[c].prefix.gen

-----------------------------------------------------------------------------
(* Stats counters *)

\* A step that changes the counters.
CountersChange == stats' # stats

\* The step is readTimings adding the one sample it received.
ConsumerStep == statsPc = "add" /\ statsPc' = "recv"

\* C23 as stated: the counters are written only by readTimings, one sample
\* at a time, and consuming a sample adds 1 to runs and the duration of the
\* sample to totalTime, and sets max to the duration and maxHost to the
\* host of the sample exactly when the duration is strictly greater than
\* max.
C23_CountersSumDurations ==
  [][CountersChange =>
       /\ ConsumerStep
       /\ stats'.runs = stats.runs + 1
       /\ stats'.totalTime = stats.totalTime + statsCh.dur
       /\ IF statsCh.dur > stats.max
          THEN stats'.max = statsCh.dur /\ stats'.maxHost = statsCh.host
          ELSE stats'.max = stats.max /\ stats'.maxHost = stats.maxHost]_vars

\* C23 as the code has it: the same with every duration counted in whole
\* milliseconds, the remainder of each sample being dropped before it is
\* added or compared.  Every step of readTimings that takes a sample
\* changes the counters so, and no other step changes them.
C23_CountersWholeMs ==
  /\ [][CountersChange \/ ConsumerStep =>
         LET ms == statsCh.dur \div Millisecond IN
         /\ ConsumerStep
         /\ stats'.runs = stats.runs + 1
         /\ stats'.totalTime = stats.totalTime + ms
         /\ IF ms > stats.max
            THEN stats'.max = ms /\ stats'.maxHost = statsCh.host
            ELSE stats'.max = stats.max /\ stats'.maxHost = stats.maxHost]_vars
  /\ [](stats.max <= stats.totalTime /\ stats.totalTime <= stats.runs * stats.max)
  /\ []((stats.max = 0) <=> (stats.maxHost = <<>>))

\* Two samples of one millisecond each, from calls with different URLs,
\* have been consumed: max is 1 and maxHost is still the URL of the first.
C23_Witness ==
  /\ statsPc = "recv"
  /\ stats.runs = 2
  /\ stats.totalTime = 2
  /\ stats.max = 1
  /\ NCallers >= 2
  /\ pc[1] = "ret" /\ pc[2] = "ret"
  /\ url[1] # url[2]
  /\ stats.maxHost = String(url[2])

-----------------------------------------------------------------------------
(* Immutability of the stored indexes *)

\* A step changes an index holder only as a Store of init, which puts the
\* table init holds from newRulesets in place; and init leaves the
\* tables it got from newRulesets as they are.
OnlyStoresReplace ==
  /\ (plainTargets' # plainTargets) =>
       ( /\ buildPc = "built" /\ buildPc' = "plainStored"
         /\ plainTargets'.gen = plainTargets.gen + 1
         /\ plainTargets'.m = buildLocal.plains )
  /\ (wildcardTargets' # wildcardTargets) =>
       ( /\ buildPc = "plainStored" /\ buildPc' = "done"
         /\ wildcardTargets'.gen = wildcardTargets.gen + 1
         /\ wildcardTargets'.m = buildLocal.wildcards )
  /\ (buildPc \in {"built", "plainStored", "done"}) =>
       (buildLocal' = buildLocal)

\* C24: the value held by either index holder changes only by a Store of
\* init that replaces it by the complete table newRulesets returned;
\* rewrite, rewriteWithRuleset and readTimings change neither holder; init
\* adds nothing to a table once it holds it for storing; so a lookup that
\* reads a built table reads all of its entries.
C24_ImmutableAfterPublication ==
  /\ [][OnlyStoresReplace]_vars
  /\ [](buildPc \in {"built", "plainStored", "done"} =>
         buildLocal = [plains |-> BuiltPlain, wildcards |-> BuiltWildcard])
  /\ [](plainTargets.gen = 1 => plainTargets.m = buildLocal.plains)
  /\ [](wildcardTargets.gen = 1 => wildcardTargets.m = buildLocal.wildcards)
  /\ [](\A c \in Callers :
         /\ (seen[c].plain.run /\ seen[c].plain.gen = 1) =>
              (seen[c].plain.match <=> url[c].Host \in DOMAIN buildLocal.plains)
         /\ (seen[c].prefix.run /\ seen[c].prefix.gen = 1) =>
              (seen[c].prefix.match
                 <=> LongestPrefix(buildLocal.wildcards, reverse(url[c].Host)).match)
         /\ (seen[c].suffix.run /\ seen[c].suffix.gen = 1) =>
              (seen[c].suffix.match
                 <=> LongestPrefix(buildLocal.wildcards, url[c].Host).match))

\* Both built tables are stored and not empty, a call has been answered
\* from them with a rewrite and its sample has been consumed.
C24_Witness ==
  /\ Published
  /\ DOMAIN plainTargets.m # {} /\ DOMAIN wildcardTargets.m # {}
  /\ plainTargets.m = BuiltPlain /\ wildcardTargets.m = BuiltWildcard
  /\ stats.runs >= 1
  /\ statsPc = "recv"
  /\ \E c \in Callers :
       pc[c] = "ret" /\ ReadBuilt(c) /\ seen[c].plain.run /\ res[c].hit

-----------------------------------------------------------------------------
(* Longest-prefix selection *)

\* The stored wildcard keys that are prefixes of the lookup string s.
MatchingKeys(s) == {k \in DOMAIN wildcardTargets.m : HasPrefix(s, k)}

\* The wildcard step st, which looked s up for URL u, took the longest
\* matching key and evaluated the rule set stored under it and no other.
TookLongest(st, s, u) ==
  IF MatchingKeys(s) = {} THEN ~st.match
  ELSE /\ st.match
       /\ st.key \in MatchingKeys(s)
       /\ \A k \in MatchingKeys(s) : Len(k) <= Len(st.key)
       /\ st.val = wildcardTargets.m[st.key]
       /\ [hit |-> st.hit, str |-> st.str] = rewriteWithRuleset(u, st.val)

\* C25: when several stored wildcard keys are prefixes of the lookup string
\* (the reversed host in the prefix-wildcard step, the host in the
\* suffix-wildcard step), the step selects the rule set stored under the
\* longest of them and its outcome is the verdict of that rule set alone:
\* when that rule set declines the step yields no rewrite, also when the
\* rule set under a shorter matching key would rewrite the URL.
C25_LongestKeyOnly ==
  \A c \in Callers :
    /\ (seen[c].prefix.run /\ seen[c].prefix.gen = wildcardTargets.gen) =>
         TookLongest(seen[c].prefix, reverse(url[c].Host), url[c])
    /\ (seen[c].suffix.run /\ seen[c].suffix.gen = wildcardTargets.gen) =>
         TookLongest(seen[c].suffix, url[c].Host, url[c])

\* The keys of *.a.b and *.c.a.b both match the reversed host of d.c.a.b;
\* the rule set under the longer key declined, the one under the shorter
\* key would have rewritten the URL, and the step produced no rewrite.
C25_Witness ==
  \E c \in Callers :
    LET s == reverse(url[c].Host) IN
    /\ url[c].Host = h_dcab
    /\ seen[c].prefix.run
    /\ Declined(seen[c].prefix)
    /\ seen[c].prefix.key = reverse(Tail(t_pre_cab))
    /\ reverse(Tail(t_pre_ab)) \in MatchingKeys(s)
    /\ rewriteWithRuleset(url[c], wildcardTargets.m[reverse(Tail(t_pre_ab))]).hit

-----------------------------------------------------------------------------
(* Classification of targets *)

\* The index and key the stated order gives a target: a host starting with
\* "*" is a prefix wildcard; otherwise a host ending with "*" is a suffix
\* wildcard; otherwise it is exact.
StatedKey(t) ==
  IF HasPrefix(t, <<"*">>)
  THEN [index |-> "wildcard", key |-> Rev(Tail(t))]
  ELSE IF HasSuffix(t, <<"*">>)
  THEN [index |-> "wildcard", key |-> SubSeq(t, 1, Len(t) - 1)]
  ELSE [index |-> "plain", key |-> t]

\* All targets of the active, fully compiled records of the bundle.
IndexedTargets ==
  UNION {TargetsOf(bundle[i]) : i \in {j \in 1..Len(bundle) : Indexed(bundle[j])}}

\* C26: after the build every target of an active, fully compiled record is
\* in exactly one index under exactly one key, the one the stated order
\* gives it, and the indexes hold no other key.
C26_TargetClassification ==
  Published =>
    /\ DOMAIN plainTargets.m =
         {StatedKey(t).key : t \in {x \in IndexedTargets : StatedKey(x).index = "plain"}}
    /\ DOMAIN wildcardTargets.m =
         {StatedKey(t).key : t \in {x \in IndexedTargets : StatedKey(x).index = "wildcard"}}

-----------------------------------------------------------------------------
(* Records that list the same exact host *)

\* The positions of the active, fully compiled records that list the host t.
Listing(t) == {i \in 1..Len(bundle) : Indexed(bundle[i]) /\ t \in TargetsOf(bundle[i])}

\* The exact hosts listed by any record of the bundle, kept or discarded.
ExactHosts ==
  {t \in UNION {TargetsOf(bundle[i]) : i \in 1..Len(bundle)} : IsExact(t)}

\* C27: after the build the plain map has an entry for an exact host exactly
\* when an active, fully compiled record lists it, and the entry is the rule
\* set of the last such record of the bundle; a record that is switched off,
\* restricted to mixed content or not compilable leaves the entry of an
\* earlier record as it was.
C27_LastWriterWins ==
  plainTargets.gen = 1 =>
    \A t \in ExactHosts :
      IF Listing(t) = {}
      THEN t \notin DOMAIN plainTargets.m
      ELSE /\ t \in DOMAIN plainTargets.m
           /\ \A i \in Listing(t) : i <= plainTargets.m[t].id
           /\ plainTargets.m[t].id \in Listing(t)

\* Two kept records list the host a.b, the map holds the later one, and a
\* call on that host has read it.
C27_Witness ==
  /\ plainTargets.gen = 1
  /\ Listing(h_ab) = {1, 2}
  /\ bundle[1].Rule # bundle[2].Rule
  /\ plainTargets.m[h_ab].id = 2
  /\ seen[1].plain.run /\ seen[1].plain.match /\ seen[1].plain.val.id = 2

-----------------------------------------------------------------------------
(* Normalization of replacement templates.  The build is run on bundles     *)
(* of one record with one rule, whose template ranges over all strings up   *)
(* to MaxTemplate characters.                                               *)

MaxTemplate == 4

TemplateChars == {"$", "1", "2", "0", "{", "}", "x"}

Templates == UNION {[1..k -> TemplateChars] : k \in 0..MaxTemplate}

NormBundles ==
  {<<Rec("", "", <<h_ab>>, <<>>, <<[From |-> p_http, To |-> t]>>)>> : t \in Templates}

InitNorm ==
  /\ bundle \in NormBundles
  /\ decodeOk = TRUE
  /\ plainTargets = [gen |-> 0, m |-> EmptyMap]
  /\ wildcardTargets = [gen |-> 0, m |-> EmptyMap]
  /\ buildPc = "start"
  /\ buildLocal = [plains |-> EmptyMap, wildcards |-> EmptyMap]
  /\ deserializations = 0
  /\ InitCommon

NextNorm ==
  \/ InitBuild
  \/ InitStorePlain
  \/ InitStoreWildcard

SpecNorm == InitNorm /\ [][NextNorm]_vars

\* The template of rule j of record i as the bundle has it.
SourceTo(i, j) == bundle[i].Rule[j].To

GroupDigits == {Itoa(i) : i \in 1..9}

AllDigits == {Itoa(i) : i \in 0..9}

\* s has a "$" directly followed by one of the digits 1..9.
BareRef(s) == \E i \in 1..(Len(s) - 1) : s[i] = "$" /\ s[i + 1] \in GroupDigits

\* The rule sets the build made; id is the position of the record.
BuiltRulesets == {buildLocal.plains[k] : k \in DOMAIN buildLocal.plains}

\* C28: normalizing a normalized template changes nothing, and a template
\* without an unbraced reference, such as one that only has braced ones, is
\* stored as it is.
C28_NormalizeIdempotent ==
  \A rs \in BuiltRulesets :
    \A j \in 1..Len(rs.rule) :
      /\ rs.rule[j].to = normalizeTo(SourceTo(rs.id, j))
      /\ normalizeTo(rs.rule[j].to) = rs.rule[j].to
      /\ ~BareRef(SourceTo(rs.id, j)) => rs.rule[j].to = SourceTo(rs.id, j)

\* The build has normalized "$1${" to "${1}${": the reference is braced once
\* and the text after it is kept.
C28_Witness ==
  /\ buildPc = "done"
  /\ SourceTo(1, 1) = <<"$", "1", "$", "{">>
  /\ plainTargets.m[h_ab].rule[1].to = <<"$", "{", "1", "}", "$", "{">>

\* Every "$d", d one of 1..9, becomes "${d}" in one pass from the left;
\* every other character stays.
RECURSIVE BraceOneDigit(_)
BraceOneDigit(s) ==
  IF s = <<>> THEN <<>>
  ELSE IF Len(s) >= 2 /\ s[1] = "$" /\ s[2] \in GroupDigits
  THEN <<"$", "{", s[2], "}">> \o BraceOneDigit(SubSeq(s, 3, Len(s)))
  ELSE <<Head(s)>> \o BraceOneDigit(Tail(s))

RECURSIVE digitRun(_)
digitRun(s) ==
  IF s # <<>> /\ Head(s) \in AllDigits THEN 1 + digitRun(Tail(s)) ELSE 0

\* Every "$" followed by a group number becomes "${number}", the number
\* being the whole run of digits.
RECURSIVE BraceDigitRun(_)
BraceDigitRun(s) ==
  IF s = <<>> THEN <<>>
  ELSE IF Len(s) >= 2 /\ s[1] = "$" /\ s[2] \in GroupDigits
  THEN LET n == digitRun(Tail(s)) IN
       <<"$", "{">> \o SubSeq(s, 2, n + 1) \o <<"}">>
         \o BraceDigitRun(SubSeq(s, n + 2, Len(s)))
  ELSE <<Head(s)>> \o BraceDigitRun(Tail(s))

\* C30: the stored template has every group reference braced as a whole:
\* all the digits that follow the "$" are inside the braces, so "$20" gives
\* "${20}" and "$1" gives "${1}".
C30_MultiDigitBraced ==
  \A rs \in BuiltRulesets :
    \A j \in 1..Len(rs.rule) :
      rs.rule[j].to = BraceDigitRun(SourceTo(rs.id, j))

====
